---- MODULE Spec2Model ----
(***************************************************************************)
(* Model of the session package: the SessionManager with its per-SID       *)
(* exclusion table (the locking variant of session.go, shipped in          *)
(* src/boltstore.go from line 203 on), the Session handle, and the         *)
(* storage behind them.                                                    *)
(*                                                                         *)
(* Strings are modelled as TLA+ strings; "" is Go's empty string.  A Go    *)
(* map[string]string is a function whose domain is the set of keys that    *)
(* are present; the nil map is the distinguished function NilValues.       *)
(***************************************************************************)
EXTENDS Integers, Sequences, FiniteSets, TLC

(* ------------------------------ bounds -------------------------------- *)
\* number of HTTP requests served (each one Begin ... Commit)
NumReq == 3
\* number of identifiers makeID can hand out
MaxID == 4
\* number of Set / Clear calls a handler makes between Begin and Commit
MaxOps == 1
\* number of storage calls that fail with an I/O error
MaxFail == 1

\* number of goroutines that call the MemoryStore (each makes one call)
NumCallers == 3
\* the clock stops here
MaxTime == 6

\* depth of the buffered get/commit/delete queues (make(chan request, 10))
QueueCap == 10
\* the smallest maxAge NewMemoryStore accepts (5*time.Minute), in minutes
MinMaxAge == 5
\* the gcDelay NewSessionManager sets (time.Hour), in minutes
DefaultGCDelay == 60

\* number of goroutines that call SessionManager.Close
NumClosers == 2
\* number of sweeps the gc loop makes
MaxSweeps == 2
\* number of Session handles and of map objects at the level of addresses
NumHandles == 2
MaxHeap == 4

Req == 1..NumReq
Caller == 1..NumCallers
Closer == 1..NumClosers
Handle == 1..NumHandles
UserKeys == {"k1", "k2"}
Vals == {"", "a"}

(* ------------------------------ values -------------------------------- *)
NilValues == ("<nil>" :> "")
EmptyValues == [k \in {} |-> ""]

\* makeID: 32 random bytes printed in hex; the n-th identifier drawn is
\* distinct from every identifier drawn before it.
makeID(n) == "id" \o ToString(n)

SIDs == {makeID(n) : n \in 1..MaxID}

\* a copy that allocates the new map and never fills it
copyValues_empty(src) == EmptyValues

copyValues(src) ==
    IF src = NilValues THEN EmptyValues ELSE [k \in DOMAIN src |-> src[k]]

\* a Get that answers "error" for a key that is absent
Session_Get_error(vals, key) ==
    IF vals # NilValues /\ key \in DOMAIN vals THEN vals[key] ELSE "error"

\* Session.Get: the value under key, or "" when the key is absent
Session_Get(vals, key) ==
    IF vals # NilValues /\ key \in DOMAIN vals THEN vals[key] ELSE ""

\* Session.ActionToken: the token, or "error" when the handle has none
ActionToken(vals) ==
    IF Session_Get(vals, "actionToken") # ""
    THEN Session_Get(vals, "actionToken") ELSE "error"

\* Session.CanAct: at is the request's form value "actionToken"
CanAct(vals, at) ==
    LET sat == Session_Get(vals, "actionToken")
    IN sat # "" /\ at # "error" /\ at = sat

\* a NewActionToken that keeps the token the handle has
NewActionToken_keep(vals, n) == vals

\* Session.NewActionToken: Set("actionToken", makeID()); n is the number of
\* the identifier drawn
NewActionToken(vals, n) == ("actionToken" :> makeID(n)) @@ vals

(* --------------------- storage work functions ------------------------- *)
\* MemoryStore.get
get(st, sid) ==
    IF sid \notin DOMAIN st
    THEN [Values |-> NilValues, err |-> "ErrNotFound"]
    ELSE [Values |-> copyValues(st[sid].values), err |-> "nil"]

\* the backends a SessionManager can be built on
Backends == {"memory", "bolt", "mysql"}

\* the Get of each backend at time t: MemoryStore.get returns whatever the
\* map holds; BoltStore.Get returns nothing when the record was last used
\* more than maxAge ago; the MySQL select returns only a row last used less
\* than maxAge ago
storage_Get(k, st, sid, t, maxAge) ==
    IF /\ sid \in DOMAIN st
       /\ CASE k = "bolt" -> t - st[sid].lastUsed > maxAge
            [] k = "mysql" -> ~(t - st[sid].lastUsed < maxAge)
            [] OTHER -> FALSE
    THEN [Values |-> NilValues, err |-> "ErrNotFound"]
    ELSE get(st, sid)

\* a commit that only inserts: it leaves a record that is already there
commit_insertOnly(st, sid, vals, t) ==
    IF sid \in DOMAIN st THEN st
    ELSE (sid :> [sid |-> sid, lastUsed |-> t, values |-> vals]) @@ st

\* MemoryStore.commit
commit(st, sid, vals, t) ==
    (sid :> [sid |-> sid, lastUsed |-> t, values |-> copyValues(vals)]) @@ st

\* a delete that leaves the map as it is
delete_noop(st, sid) == st

\* a delete that empties the map
delete_all(st, sid) == [x \in {} |-> st[x]]

\* MemoryStore.delete
delete(st, sid) == [x \in DOMAIN st \ {sid} |-> st[x]]

(* ------------------------------ state --------------------------------- *)
VARIABLES
    ses,             \* per request: the Session handle and the request's position
    activeSessions,  \* SessionManager.activeSessions: sid -> channel (named by its maker)
    store,           \* the storage's records: sid -> storedSession
    now,             \* wall clock
    nextID,          \* number of the next identifier makeID draws
    published,       \* session ids that have left the server in a Set-Cookie header
    nFail,           \* storage failures so far
    h,               \* per request: history of what it did (for the properties)
    g,               \* per sid: history of the commits made to it (for the properties)
    cl,              \* per MemoryStore caller: its call and where it stands in it
    commitQueue,     \* MemoryStore.commitQueue: the callers whose request is buffered
    deleteQueue,     \* MemoryStore.deleteQueue
    getQueue,        \* MemoryStore.getQueue
    closedChans,     \* the MemoryStore channels that have been closed
    loop,            \* MemoryStore.serve: "serving" or "exited"
    sm,              \* SessionManager: storage, closed, gcDelay, its mutex, closeChan
    gcl,             \* SessionManager.gc: where the loop stands
    cz,              \* per caller of SessionManager.Close: where it stands
    drain,           \* the goroutine Close starts when it times out
    ctor,            \* the last backend constructor call and its result
    heap,            \* the map[string]string objects: address -> contents
    recRef,          \* MemoryStore.store at the level of addresses: sid -> address
    hdl              \* Session handles at the level of addresses: sid, Values address

mgrVars == <<ses, activeSessions, nextID, published, nFail, h, g>>
memVars == <<cl, commitQueue, deleteQueue, getQueue, closedChans, loop>>
lifeVars == <<sm, gcl, cz, drain, ctor>>
heapVars == <<heap, recRef, hdl>>
vars == <<ses, activeSessions, store, now, nextID, published, nFail, h, g,
          cl, commitQueue, deleteQueue, getQueue, closedChans, loop,
          sm, gcl, cz, drain, ctor, heap, recRef, hdl>>

Range(f) == {f[x] : x \in DOMAIN f}

InitSes ==
    [pc |-> "idle", tok |-> "", sid |-> "", Values |-> NilValues, cookie |-> "",
     nops |-> 0, ret |-> "none", berr |-> FALSE, waitCh |-> 0, begun |-> FALSE]

InitH ==
    [holds |-> "", resumed |-> FALSE, fresh |-> FALSE, cleared |-> FALSE,
     oldSid |-> "", wrote |-> {}, doneAtIssue |-> {},
     cmtBeforeGet |-> {}, fetchedOf |-> 0, cmtSid |-> "", idAtCall |-> 0,
     recAtIssue |-> FALSE, oldTokens |-> {}, lastAtGet |-> 0,
     expiredAtGet |-> FALSE]

InitG ==
    [committers |-> [s \in SIDs |-> {}],
     lastCommitter |-> [s \in SIDs |-> 0],
     clearedSids |-> {}]

InitCaller ==
    [pc |-> "idle", op |-> "", sid |-> "", Values |-> NilValues,
     resp |-> [Values |-> NilValues, err |-> ""], afterClose |-> FALSE,
     obs |-> [had |-> FALSE, removed |-> {}, kept |-> {}, expired |-> FALSE],
     returnedBefore |-> {}, applied |-> 0]

InitCloser == [pc |-> "idle", timedOut |-> FALSE, ret |-> ""]

NoCtor == [kind |-> "", tablename |-> "", maxAge |-> 0, err |-> "",
           created |-> FALSE, effects |-> {}]

\* NewMemoryStore: empty queues, an empty map, the serve loop started
NewMemoryStore ==
    /\ cl = [c \in Caller |-> InitCaller]
    /\ heap = <<>>
    /\ recRef = [s \in {} |-> 0]
    /\ hdl = [i \in Handle |-> [pc |-> "idle", sid |-> "", Values |-> 0,
                                 resumed |-> FALSE, dirty |-> FALSE]]
    /\ ctor = NoCtor
    /\ commitQueue = <<>>
    /\ deleteQueue = <<>>
    /\ getQueue = <<>>
    /\ closedChans = {}
    /\ loop = "serving"
    /\ store = [s \in {} |-> 0]
    /\ now = 0

\* NewSessionManager: an empty exclusion table; no request yet
NewSessionManager ==
    /\ ses = [r \in Req |-> InitSes]
    /\ activeSessions = [s \in {} |-> 0]
    /\ nextID = 1
    /\ published = {}
    /\ nFail = 0
    /\ h = [r \in Req |-> InitH]
    /\ g = InitG
    /\ sm = [storage |-> Backends,
             closed |-> FALSE, gcDelay |-> DefaultGCDelay, mu |-> "",
             closeChan |-> "open", storageCloses |-> 0,
             lastSet |-> [delay |-> 0, err |-> "", before |-> 0]]
    /\ gcl = [pc |-> "select", sweeps |-> 0, afterClose |-> 0, err |-> FALSE]
    /\ cz = [i \in Closer |-> InitCloser]
    /\ drain = "none"

Init == NewMemoryStore /\ NewSessionManager

\* Session.setCookie: the value of the session cookie it adds to the response
setCookie(sid) == sid

(* ------------------------- the exclusion table ------------------------ *)
\* One pass of lockSID's loop: under the manager lock, take the sid if it is
\* free, otherwise remember the holder's channel and wait for it to close.
lockSID(r, s) ==
    IF s \notin DOMAIN activeSessions
    THEN /\ activeSessions' = (s :> r) @@ activeSessions
         /\ ses' = [ses EXCEPT ![r].pc = "get", ![r].sid = s, ![r].tok = s]
         /\ h' = [h EXCEPT ![r].holds = s,
                           ![r].idAtCall = IF ses[r].pc = "idle" THEN nextID ELSE @,
                           ![r].recAtIssue = IF ses[r].pc = "idle"
                                             THEN s \in DOMAIN store ELSE @,
                           ![r].doneAtIssue = IF ses[r].pc = "idle"
                                              THEN {q \in Req : ses[q].pc = "done"}
                                              ELSE @]
    ELSE /\ UNCHANGED activeSessions
         /\ ses' = [ses EXCEPT ![r].pc = "wait", ![r].sid = s, ![r].tok = s,
                               ![r].waitCh = activeSessions[s]]
         /\ h' = [h EXCEPT ![r].idAtCall = IF ses[r].pc = "idle" THEN nextID ELSE @,
                           ![r].recAtIssue = IF ses[r].pc = "idle"
                                             THEN s \in DOMAIN store ELSE @,
                           ![r].doneAtIssue = IF ses[r].pc = "idle"
                                              THEN {q \in Req : ses[q].pc = "done"}
                                              ELSE @]

\* unlockSID: close the channel stored for the sid, if any, and drop the entry
unlockSID(s) ==
    activeSessions' = [x \in DOMAIN activeSessions \ {s} |-> activeSessions[x]]

\* a channel is closed once the entry its maker stored has been dropped
ChanClosed(c) == c \notin Range(activeSessions)

(* ------------------------------ Begin --------------------------------- *)
\* Begin, up to its first blocking point.  t is the value of the session
\* cookie the request carries ("" when it carries none).  Requests are
\* numbered in the order in which their Begin is called.
Begin(r, t) ==
    /\ ses[r].pc = "idle"
    /\ \A q \in Req : q < r => ses[q].pc # "idle"
    /\ t \in {""} \cup published
    /\ IF t = ""
       THEN /\ ses' = [ses EXCEPT ![r].pc = "clrDel"]
            /\ h' = [h EXCEPT ![r].idAtCall = nextID,
                              ![r].doneAtIssue = {q \in Req : ses[q].pc = "done"}]
            /\ UNCHANGED activeSessions
       ELSE lockSID(r, t)
    /\ UNCHANGED <<memVars, lifeVars, heapVars>>
    /\ UNCHANGED <<store, now, nextID, published, nFail, g>>

\* lockSID, woken by the close of the channel it waited on
LockRetry(r) ==
    /\ ses[r].pc = "wait"
    /\ ChanClosed(ses[r].waitCh)
    /\ lockSID(r, ses[r].sid)
    /\ UNCHANGED <<memVars, lifeVars, heapVars>>
    /\ UNCHANGED <<store, now, nextID, published, nFail, g>>

\* a Begin that hands out the record under an identifier of its own
Begin_resume_rename(old, vals) ==
    [old EXCEPT !.pc = "handler", !.sid = makeID(MaxID), !.Values = vals,
                !.cookie = setCookie(makeID(MaxID)), !.ret = "ok", !.begun = TRUE]

\* Begin when the storage returned a record: the handle keeps the sid of the
\* cookie, takes the stored values, and setCookie writes the sid again
Begin_resume(old, vals) ==
    [old EXCEPT !.pc = "handler", !.Values = vals,
                !.cookie = setCookie(old.sid), !.ret = "ok", !.begun = TRUE]

\* Begin: sm.storage.Get(s.sid) and what follows it up to the next storage
\* call.  k is the backend whose Get answers; sm.storage holds the backends
\* the manager may have been built on, narrowed to those that give the answer
\* this Get gave (they differ only on a record at least maxAge old).
BeginGet(r, fail, k) ==
    /\ ses[r].pc = "get"
    /\ fail => nFail < MaxFail
    /\ k \in sm.storage
    /\ LET s == ses[r].sid
           res == storage_Get(k, store, s, now, MinMaxAge)
           old == s \in DOMAIN store /\ ~(now - store[s].lastUsed < MinMaxAge)
       IN IF fail
          THEN /\ ses' = [ses EXCEPT ![r].pc = "failed", ![r].ret = "err",
                                     ![r].berr = TRUE]
               /\ h' = [h EXCEPT ![r].holds = ""]
               /\ nFail' = nFail + 1
               /\ sm' = sm
          ELSE /\ nFail' = nFail
               /\ sm' = [sm EXCEPT !.storage =
                             {b \in @ : storage_Get(b, store, s, now, MinMaxAge)
                                        = res}]
               /\ IF res.err = "ErrNotFound"
                  THEN /\ ses' = [ses EXCEPT ![r].pc = "clrDel"]
                       /\ h' = [h EXCEPT ![r].cmtBeforeGet = g.committers[s],
                                         ![r].lastAtGet = g.lastCommitter[s],
                                         ![r].expiredAtGet = old]
                  ELSE /\ ses' = [ses EXCEPT ![r] = Begin_resume(@, res.Values)]
                       /\ h' = [h EXCEPT ![r].resumed = TRUE,
                                         ![r].fetchedOf = g.lastCommitter[s],
                                         ![r].cmtBeforeGet = g.committers[s],
                                         ![r].lastAtGet = g.lastCommitter[s],
                                         ![r].expiredAtGet = old]
    /\ UNCHANGED <<memVars, heapVars, gcl, cz, drain, ctor>>
    /\ UNCHANGED <<activeSessions, store, now, nextID, published, g>>

(* ------------------------------ Clear --------------------------------- *)
\* Clear: s.sm.storage.Delete(s); its error is dropped
ClearDelete(r, fail) ==
    /\ ses[r].pc = "clrDel"
    /\ fail => nFail < MaxFail
    /\ LET s == ses[r].sid
       IN /\ store' = IF fail THEN store ELSE delete(store, s)
          /\ g' = IF fail \/ s \notin SIDs THEN g
                  ELSE [g EXCEPT !.lastCommitter[s] = 0]
    /\ nFail' = IF fail THEN nFail + 1 ELSE nFail
    /\ ses' = [ses EXCEPT ![r].pc = "clrUnlock", ![r].berr = @ \/ fail]
    /\ UNCHANGED <<memVars, lifeVars, heapVars>>
    /\ UNCHANGED <<activeSessions, now, nextID, published, h>>

\* Clear after its unlockSID: a fresh sid, an empty map, setCookie with the
\* new sid, and NewActionToken, which draws a second identifier and stores it
\* under "actionToken".  n is the number of the next identifier.
\* a Clear that forgets setCookie: the response keeps the old cookie
Session_Clear_noCookie(old, n) ==
    [old EXCEPT !.sid = makeID(n),
                !.Values = ("actionToken" :> makeID(n + 1)) @@ EmptyValues]

Session_Clear_reset(old, n) ==
    [old EXCEPT !.sid = makeID(n),
                !.Values = NewActionToken(EmptyValues, n + 1),
                !.cookie = setCookie(makeID(n))]

\* Clear: unlockSID(old sid), then the reset above
ClearUnlock(r) ==
    /\ ses[r].pc = "clrUnlock"
    /\ nextID + 1 <= MaxID
    /\ unlockSID(ses[r].sid)
    /\ ses' = [ses EXCEPT ![r] = [Session_Clear_reset(@, nextID)
                                     EXCEPT !.pc = "handler", !.ret = "ok",
                                            !.begun = TRUE]]
    /\ nextID' = nextID + 2
    /\ h' = [h EXCEPT ![r].holds = "",
                      ![r].fresh = IF ses[r].begun THEN @ ELSE TRUE,
                      ![r].cleared = ses[r].begun,
                      ![r].oldSid = IF ses[r].begun THEN ses[r].sid ELSE @,
                      ![r].wrote = {},
                      ![r].oldTokens =
                          @ \cup ({Session_Get(ses[r].Values, "actionToken")} \ {""})]
    /\ g' = IF ses[r].begun
            THEN [g EXCEPT !.clearedSids = @ \cup {ses[r].sid}]
            ELSE g
    /\ UNCHANGED <<memVars, lifeVars, heapVars>>
    /\ UNCHANGED <<store, now, published, nFail>>

(* --------------------------- the handler ------------------------------ *)
Session_Set(r, k, v) ==
    /\ ses[r].pc = "handler"
    /\ ses[r].nops < MaxOps
    /\ ses' = [ses EXCEPT ![r].Values = (k :> v) @@ @, ![r].nops = @ + 1]
    /\ h' = [h EXCEPT ![r].wrote = {p \in @ : p[1] # k} \cup {<<k, v>>}]
    /\ UNCHANGED <<memVars, lifeVars, heapVars>>
    /\ UNCHANGED <<activeSessions, store, now, nextID, published, nFail, g>>

Session_Clear(r) ==
    /\ ses[r].pc = "handler"
    /\ ses[r].nops < MaxOps
    /\ ses' = [ses EXCEPT ![r].pc = "clrDel", ![r].nops = @ + 1,
                          ![r].ret = "none", ![r].berr = FALSE]
    /\ UNCHANGED <<memVars, lifeVars, heapVars>>
    /\ UNCHANGED <<activeSessions, store, now, nextID, published, nFail, h, g>>

\* the handler calls NewActionToken (as it should after each checked action)
Session_NewActionToken(r) ==
    /\ ses[r].pc = "handler"
    /\ ses[r].nops < MaxOps
    /\ nextID <= MaxID
    /\ ses' = [ses EXCEPT ![r].Values = NewActionToken(@, nextID),
                          ![r].nops = @ + 1]
    /\ nextID' = nextID + 1
    /\ h' = [h EXCEPT ![r].oldTokens =
                          @ \cup ({Session_Get(ses[r].Values, "actionToken")} \ {""})]
    /\ UNCHANGED <<memVars, lifeVars, heapVars>>
    /\ UNCHANGED <<activeSessions, store, now, published, nFail, g>>

\* the handler writes (part of) the response before Commit: the headers,
\* with the Set-Cookie that setCookie added, go out to the client
WriteResponse(r) ==
    /\ ses[r].pc = "handler"
    /\ ses[r].cookie \notin published
    /\ published' = published \cup {ses[r].cookie}
    /\ UNCHANGED <<memVars, lifeVars, heapVars>>
    /\ UNCHANGED <<ses, activeSessions, store, now, nextID, nFail, h, g>>

(* ------------------------------ Commit -------------------------------- *)
\* a Commit that releases the sid only when the storage took the session
CommitUnlock_onSuccess(r) ==
    /\ ses[r].pc = "cmtUnlock"
    /\ IF ses[r].berr THEN UNCHANGED activeSessions ELSE unlockSID(ses[r].sid)
    /\ ses' = [ses EXCEPT ![r].pc = "done",
                          ![r].ret = IF ses[r].berr THEN "err" ELSE "ok"]
    /\ published' = published \cup {ses[r].cookie}
    /\ h' = [h EXCEPT ![r].holds = ""]
    /\ UNCHANGED <<memVars, lifeVars, heapVars>>
    /\ UNCHANGED <<store, now, nextID, nFail, g>>

\* Session.Commit: s.sm.storage.Commit(s).  The handle is the one Begin
\* returned or, for a request that never called Begin, a Session with its
\* zero value, whose sid is empty.
Session_Commit(r, fail) ==
    /\ \/ ses[r].pc = "handler"
       \/ /\ ses[r].pc = "idle"
          /\ \A q \in Req : q < r => ses[q].pc # "idle"
    /\ fail => (nFail < MaxFail /\ ses[r].sid # "")
    /\ LET s == ses[r].sid
       IN IF s = ""
          THEN /\ ses' = [ses EXCEPT ![r].pc = "done", ![r].ret = "ok",
                                     ![r].berr = FALSE]
               /\ UNCHANGED <<store, nFail, g, h>>
          ELSE /\ ses' = [ses EXCEPT ![r].pc = "cmtUnlock", ![r].ret = "none",
                                     ![r].berr = fail]
               /\ store' = IF fail THEN store
                           ELSE commit(store, s, ses[r].Values, now)
               /\ nFail' = IF fail THEN nFail + 1 ELSE nFail
               /\ g' = IF fail THEN g
                       ELSE [g EXCEPT !.committers[s] = @ \cup {r},
                                      !.lastCommitter[s] = r]
               /\ h' = IF fail THEN h ELSE [h EXCEPT ![r].cmtSid = s]
    /\ UNCHANGED <<memVars, lifeVars, heapVars>>
    /\ UNCHANGED <<activeSessions, now, nextID, published>>

\* Session.Commit: s.sm.unlockSID(s.sid); return err.  The request ends and
\* its response, cookie included, is complete.
CommitUnlock(r) ==
    /\ ses[r].pc = "cmtUnlock"
    /\ unlockSID(ses[r].sid)
    /\ ses' = [ses EXCEPT ![r].pc = "done",
                          ![r].ret = IF ses[r].berr THEN "err" ELSE "ok"]
    /\ published' = published \cup {ses[r].cookie}
    /\ h' = [h EXCEPT ![r].holds = ""]
    /\ UNCHANGED <<memVars, lifeVars, heapVars>>
    /\ UNCHANGED <<store, now, nextID, nFail, g>>

Next ==
    \/ \E r \in Req, t \in {""} \cup SIDs : Begin(r, t)
    \/ \E r \in Req : LockRetry(r)
    \/ \E r \in Req, fail \in BOOLEAN, k \in Backends : BeginGet(r, fail, k)
    \/ \E r \in Req, fail \in BOOLEAN : ClearDelete(r, fail)
    \/ \E r \in Req : ClearUnlock(r)
    \/ \E r \in Req, k \in UserKeys, v \in Vals : Session_Set(r, k, v)
    \/ \E r \in Req : Session_Clear(r)
    \/ \E r \in Req : Session_NewActionToken(r)
    \/ \E r \in Req : WriteResponse(r)
    \/ \E r \in Req, fail \in BOOLEAN : Session_Commit(r, fail)
    \/ \E r \in Req : CommitUnlock(r)

Spec == Init /\ [][Next]_vars


(* ============================ MemoryStore ============================= *)
(* Callers turn each call into a request with a private response channel  *)
(* and send it on the queue of its kind; serve, the one loop that owns    *)
(* the map, receives a request, runs the work function and answers on     *)
(* the response channel.                                                  *)

Ops == {"Get", "Commit", "Delete", "GC", "Close"}
Buffered == {"Get", "Commit", "Delete"}
\* the channel a call of each kind sends on
ChanOf(op) ==
    CASE op = "Get" -> "getQueue"
      [] op = "Commit" -> "commitQueue"
      [] op = "Delete" -> "deleteQueue"
      [] op = "GC" -> "gcQueue"
      [] OTHER -> "closeChan"

StoreSIDs == {makeID(1), makeID(2)}
StoreValues == {("k1" :> "a") @@ EmptyValues, EmptyValues}

\* a sweep that also drops the records whose age is exactly maxAge
gc_atAge(st, t, maxAge) ==
    [k \in {x \in DOMAIN st : ~(t - st[x].lastUsed >= maxAge)} |-> st[k]]

\* a close that forgets the get queue
close_forgetsGet == {"commitQueue", "deleteQueue", "gcQueue", "closeChan"}

\* MemoryStore.close: the channels it closes (it also sets store to nil)
close == {"commitQueue", "deleteQueue", "gcQueue", "getQueue", "closeChan"}

\* MemoryStore.gc: drop every record last used more than maxAge ago
gc(st, t, maxAge) ==
    [k \in {x \in DOMAIN st : ~(t - st[x].lastUsed > maxAge)} |-> st[k]]

\* a Close call has returned to its caller
CloseReturned == \E c \in Caller : cl[c].op = "Close" /\ cl[c].pc = "returned"

\* Get / Commit / Delete / GC / Close, up to the send on the queue: the
\* request and its response channel are made.  Callers are numbered in the
\* order of their calls.
Call(c, op, s, v) ==
    /\ cl[c].pc = "idle"
    /\ \A d \in Caller : d < c => cl[d].pc # "idle"
    /\ s = (IF op \in Buffered THEN s ELSE "")
    /\ v = (IF op = "Commit" THEN v ELSE NilValues)
    /\ cl' = [cl EXCEPT ![c] = [@ EXCEPT !.pc = "sending", !.op = op, !.sid = s,
                                         !.Values = v,
                                         !.afterClose = CloseReturned,
                                         !.returnedBefore =
                                             {d \in Caller : cl[d].pc = "returned"}]]
    /\ UNCHANGED <<commitQueue, deleteQueue, getQueue, closedChans, loop, store, now>>
    /\ UNCHANGED <<mgrVars, lifeVars, heapVars>>

\* the send on a buffered queue that is open and has room: the caller goes
\* on to wait on its response channel
Send(c) ==
    /\ cl[c].pc = "sending"
    /\ cl[c].op \in Buffered
    /\ ChanOf(cl[c].op) \notin closedChans
    /\ CASE cl[c].op = "Get" ->
              /\ Len(getQueue) < QueueCap
              /\ getQueue' = Append(getQueue, c)
              /\ UNCHANGED <<commitQueue, deleteQueue>>
         [] cl[c].op = "Commit" ->
              /\ Len(commitQueue) < QueueCap
              /\ commitQueue' = Append(commitQueue, c)
              /\ UNCHANGED <<getQueue, deleteQueue>>
         [] OTHER ->
              /\ Len(deleteQueue) < QueueCap
              /\ deleteQueue' = Append(deleteQueue, c)
              /\ UNCHANGED <<getQueue, commitQueue>>
    /\ cl' = [cl EXCEPT ![c].pc = "recv"]
    /\ UNCHANGED <<closedChans, loop, store, now>>
    /\ UNCHANGED <<mgrVars, lifeVars, heapVars>>

\* a send on a closed channel panics
SendPanic(c) ==
    /\ cl[c].pc = "sending"
    /\ ChanOf(cl[c].op) \in closedChans
    /\ cl' = [cl EXCEPT ![c].pc = "panicked"]
    /\ UNCHANGED <<commitQueue, deleteQueue, getQueue, closedChans, loop, store, now>>
    /\ UNCHANGED <<mgrVars, lifeVars, heapVars>>

\* what a request found and did, kept for the properties: whether a Delete's
\* sid had a record, which sids a sweep removed, which records it kept that
\* were exactly maxAge old, and whether the record a Get found was last
\* committed more than maxAge ago
Observed(c) ==
    [had |-> cl[c].op = "Delete" /\ cl[c].sid \in DOMAIN store,
     removed |-> IF cl[c].op = "GC" THEN DOMAIN store \ DOMAIN store' ELSE {},
     kept |-> IF cl[c].op = "GC"
              THEN {s \in DOMAIN store \cap DOMAIN store' :
                       now - store[s].lastUsed = MinMaxAge}
              ELSE {},
     expired |-> /\ cl[c].op = "Get"
                 /\ cl[c].sid \in DOMAIN store
                 /\ now - store[cl[c].sid].lastUsed > MinMaxAge]

\* serve's answer: req.respChan <- req, received by the caller; applied is
\* the request's place in the order in which the loop ran the work functions
Respond(c, vals, err) ==
    cl' = [cl EXCEPT ![c].pc = "returned",
                     ![c].resp = [Values |-> vals, err |-> err],
                     ![c].obs = Observed(c),
                     ![c].applied =
                         1 + Cardinality({d \in Caller : cl[d].applied > 0})]

\* serve: case req := <-s.commitQueue
ServeCommit ==
    /\ loop = "serving"
    /\ commitQueue # <<>>
    /\ LET c == Head(commitQueue)
       IN /\ store' = commit(store, cl[c].sid, cl[c].Values, now)
          /\ Respond(c, NilValues, "nil")
    /\ commitQueue' = Tail(commitQueue)
    /\ UNCHANGED <<deleteQueue, getQueue, closedChans, loop, now>>
    /\ UNCHANGED <<mgrVars, lifeVars, heapVars>>

\* serve: case req := <-s.deleteQueue
ServeDelete ==
    /\ loop = "serving"
    /\ deleteQueue # <<>>
    /\ LET c == Head(deleteQueue)
       IN /\ store' = delete(store, cl[c].sid)
          /\ Respond(c, NilValues, "nil")
    /\ deleteQueue' = Tail(deleteQueue)
    /\ UNCHANGED <<commitQueue, getQueue, closedChans, loop, now>>
    /\ UNCHANGED <<mgrVars, lifeVars, heapVars>>

\* serve: case req := <-s.gcQueue (unbuffered: taken from a caller that is
\* at its send)
ServeGC(c) ==
    /\ loop = "serving"
    /\ cl[c].pc = "sending" /\ cl[c].op = "GC"
    /\ store' = gc(store, now, MinMaxAge)
    /\ Respond(c, NilValues, "nil")
    /\ UNCHANGED <<commitQueue, deleteQueue, getQueue, closedChans, loop, now>>
    /\ UNCHANGED <<mgrVars, lifeVars, heapVars>>

\* serve: case req := <-s.getQueue
ServeGet ==
    /\ loop = "serving"
    /\ getQueue # <<>>
    /\ LET c == Head(getQueue)
           res == get(store, cl[c].sid)
       IN Respond(c, res.Values, res.err)
    /\ getQueue' = Tail(getQueue)
    /\ UNCHANGED <<commitQueue, deleteQueue, closedChans, loop, store, now>>
    /\ UNCHANGED <<mgrVars, lifeVars, heapVars>>

\* serve: case req := <-s.closeChan: close(), the answer, return
ServeClose(c) ==
    /\ loop = "serving"
    /\ cl[c].pc = "sending" /\ cl[c].op = "Close"
    /\ closedChans' = close
    /\ store' = [s \in {} |-> 0]
    /\ Respond(c, NilValues, "nil")
    /\ loop' = "exited"
    /\ UNCHANGED <<commitQueue, deleteQueue, getQueue, now>>
    /\ UNCHANGED <<mgrVars, lifeVars, heapVars>>

\* time passes: a minute at the start, a whole maxAge, or a minute after a
\* maxAge has passed (the clock readings at which a record's age is below,
\* at and above maxAge)
Tick(d) ==
    /\ now + d <= MaxTime
    /\ d = 1 => (now = 0 \/ now >= MinMaxAge)
    /\ now' = now + d
    /\ UNCHANGED <<store, memVars, mgrVars, lifeVars, heapVars>>

MemNext ==
    \/ \E c \in Caller, op \in Ops, s \in StoreSIDs \cup {""},
          v \in StoreValues \cup {NilValues} : Call(c, op, s, v)
    \/ \E c \in Caller : Send(c)
    \/ \E c \in Caller : SendPanic(c)
    \/ ServeCommit
    \/ ServeDelete
    \/ \E c \in Caller : ServeGC(c)
    \/ ServeGet
    \/ \E c \in Caller : ServeClose(c)
    \/ \E d \in {1, MinMaxAge} : Tick(d)

SpecMem == Init /\ [][MemNext]_vars

(* ----------------- the manager with time and the sweep ---------------- *)
\* the gc loop's tick, seen from the requests: sm.storage.GC() removes the
\* records last committed more than maxAge ago.  For the properties, a sid
\* whose record is removed has no last committer any more.
Storage_GC ==
    /\ store' = gc(store, now, MinMaxAge)
    /\ g' = [g EXCEPT !.lastCommitter =
                 [s \in SIDs |-> IF s \in DOMAIN store /\ s \notin DOMAIN store'
                                 THEN 0 ELSE g.lastCommitter[s]]]
    /\ UNCHANGED <<memVars, lifeVars, heapVars>>
    /\ UNCHANGED <<ses, activeSessions, now, nextID, published, nFail, h>>

\* the clock readings at which a record's age is below, at and above maxAge
Readings == {0, MinMaxAge, MinMaxAge + 1}

\* the requests of Spec in runs without storage failures, with the sweep and
\* with the clock passing from one of these readings to a later one at any
\* moment, also while requests are under way or waiting
AgeNext ==
    \/ \E r \in Req, t \in {""} \cup SIDs : Begin(r, t)
    \/ \E r \in Req : LockRetry(r)
    \/ \E r \in Req, k \in Backends : BeginGet(r, FALSE, k)
    \/ \E r \in Req : ClearDelete(r, FALSE)
    \/ \E r \in Req : ClearUnlock(r)
    \/ \E r \in Req, k \in UserKeys, v \in Vals : Session_Set(r, k, v)
    \/ \E r \in Req : Session_Clear(r)
    \/ \E r \in Req : Session_NewActionToken(r)
    \/ \E r \in Req : WriteResponse(r)
    \/ \E r \in Req : Session_Commit(r, FALSE)
    \/ \E r \in Req : CommitUnlock(r)
    \/ Storage_GC
    \/ \E d \in {1, MinMaxAge, MinMaxAge + 1} : now + d \in Readings /\ Tick(d)

SpecAge == Init /\ [][AgeNext]_vars


(* ===================== SessionManager lifecycle ====================== *)
(* The gc goroutine started by NewSessionManager, SetGCDelay, and Close    *)
(* with its stop signal on the unbuffered sm.closeChan.  Durations are in  *)
(* minutes.                                                                *)

Kinds == Backends
TableNames == {"", "sessions"}
Durations == {4, MinMaxAge, DefaultGCDelay}

\* NewMemoryStore(maxAge), as a function of its argument: the error it
\* returns, whether it returns a store, and what it has set up by then
NewMemoryStore_result(maxAge) ==
    IF maxAge < MinMaxAge
    THEN [err |-> "maxAge duration too short", created |-> FALSE, effects |-> {}]
    ELSE [err |-> "nil", created |-> TRUE, effects |-> {"queues", "map", "serve"}]

\* the database call that fails in a constructor: none, bolt's db.Update,
\* MySQL's db.Query of CREATE TABLE, or one of MySQL's db.Prepare
DbFailures == {"", "update", "query", "prepare"}

\* NewBoltStore(db, maxAge); dbFail = "update": db.Update returns an error
NewBoltStore(maxAge, dbFail) ==
    IF maxAge < MinMaxAge
    THEN [err |-> "maxAge duration too short", created |-> FALSE, effects |-> {}]
    ELSE IF dbFail = "update"
         THEN [err |-> "db", created |-> FALSE, effects |-> {}]
         ELSE [err |-> "nil", created |-> TRUE, effects |-> {"buckets"}]

\* NewMySQLStore(db, tablename, maxAge); dbFail = "query": the CREATE TABLE
\* fails and nothing has been made; dbFail = "prepare": a db.Prepare fails
\* after the table has been made
NewMySQLStore(tablename, maxAge, dbFail) ==
    IF tablename = ""
    THEN [err |-> "can not use empty table name", created |-> FALSE, effects |-> {}]
    ELSE IF dbFail = "query"
         THEN [err |-> "failed attempting to create table", created |-> FALSE,
               effects |-> {}]
         ELSE IF dbFail = "prepare"
              THEN [err |-> "failed preparing statement", created |-> FALSE,
                    effects |-> {"table"}]
              ELSE [err |-> "nil", created |-> TRUE,
                    effects |-> {"table", "statements"}]

\* a backend constructor is called
Construct(kind, tablename, maxAge, dbFail) ==
    /\ tablename = (IF kind = "mysql" THEN tablename ELSE "")
    /\ dbFail \in (CASE kind = "memory" -> {""}
                     [] kind = "bolt" -> {"", "update"}
                     [] OTHER -> {"", "query", "prepare"})
    /\ LET res == CASE kind = "memory" -> NewMemoryStore_result(maxAge)
                    [] kind = "bolt" -> NewBoltStore(maxAge, dbFail)
                    [] OTHER -> NewMySQLStore(tablename, maxAge, dbFail)
       IN ctor' = [kind |-> kind, tablename |-> tablename, maxAge |-> maxAge,
                   err |-> res.err, created |-> res.created,
                   effects |-> res.effects]
    /\ UNCHANGED <<sm, gcl, cz, drain, store, now, mgrVars, memVars, heapVars>>

\* SessionManager.SetGCDelay
SetGCDelay(delay) ==
    /\ sm.mu = ""
    /\ gcl.pc # "panicked"
    /\ sm' = [sm EXCEPT !.gcDelay = IF delay < MinMaxAge THEN @ ELSE delay,
                        !.lastSet = [delay |-> delay,
                                     err |-> IF delay < MinMaxAge
                                             THEN "maxAge duration too short"
                                             ELSE "nil",
                                     before |-> sm.gcDelay]]
    /\ UNCHANGED <<gcl, cz, drain, ctor, store, now, mgrVars, memVars, heapVars>>

\* the name under which the i-th Close call holds the manager's mutex
CloseName(i) == "Close" \o ToString(i)

\* a goroutine stands at a receive from sm.closeChan
Receiving(who) ==
    IF who = "gc" THEN gcl.pc = "select" ELSE drain = "recv"

\* SessionManager.Close up to its select: sm.Lock(), the closed check
Close_Lock(i) ==
    /\ cz[i].pc = "idle"
    /\ \A j \in Closer : j < i => cz[j].pc # "idle"
    /\ sm.mu = ""
    /\ gcl.pc # "panicked"
    /\ IF sm.closed
       THEN /\ cz' = [cz EXCEPT ![i].pc = "returned", ![i].ret = "already closed"]
            /\ UNCHANGED sm
       ELSE /\ cz' = [cz EXCEPT ![i].pc = "select"]
            /\ sm' = [sm EXCEPT !.mu = CloseName(i)]
    /\ UNCHANGED <<gcl, drain, ctor, store, now, mgrVars, memVars, heapVars>>

\* Close: case sm.closeChan <- true, taken by a goroutine that stands at a
\* receive; close(sm.closeChan); sm.closed = true
Close_Signal(i, who) ==
    /\ cz[i].pc = "select"
    /\ Receiving(who)
    /\ gcl' = IF who = "gc" THEN [gcl EXCEPT !.pc = "returned"] ELSE gcl
    /\ drain' = IF who = "gc" THEN drain ELSE "done"
    /\ sm' = [sm EXCEPT !.closeChan = "closed", !.closed = TRUE]
    /\ cz' = [cz EXCEPT ![i].pc = "storageClose"]
    /\ UNCHANGED <<ctor, store, now, mgrVars, memVars, heapVars>>

\* Close: case <-time.After(30 * time.Second): no goroutine took the signal
\* for that long; gcErr is set and the goroutine that is to take a late
\* acknowledgment is started; sm.closed = true
Close_Timeout(i) ==
    /\ cz[i].pc = "select"
    /\ ~Receiving("gc") /\ ~Receiving("drain")
    /\ gcl.pc # "panicked"
    /\ drain' = "recv"
    /\ sm' = [sm EXCEPT !.closed = TRUE]
    /\ cz' = [cz EXCEPT ![i].pc = "storageClose", ![i].timedOut = TRUE]
    /\ UNCHANGED <<gcl, ctor, store, now, mgrVars, memVars, heapVars>>

\* Close: sm.storage.Close(), the return value, the deferred sm.Unlock()
Close_Storage(i, fail) ==
    /\ cz[i].pc = "storageClose"
    /\ gcl.pc # "panicked"
    /\ fail => nFail < MaxFail
    /\ nFail' = IF fail THEN nFail + 1 ELSE nFail
    /\ sm' = [sm EXCEPT !.storageCloses = @ + 1, !.mu = ""]
    /\ cz' = [cz EXCEPT ![i].pc = "returned",
                        ![i].ret = IF fail THEN "storage close error"
                                   ELSE IF cz[i].timedOut
                                        THEN "gc failed to shut down"
                                        ELSE "nil"]
    /\ UNCHANGED <<gcl, drain, ctor, store, now, memVars, heapVars>>
    /\ UNCHANGED <<ses, activeSessions, nextID, published, h, g>>

\* gc: case <-time.After(sm.gcDelay)
GC_Timer ==
    /\ gcl.pc = "select"
    /\ gcl.sweeps < MaxSweeps
    /\ gcl' = [gcl EXCEPT !.pc = "lock"]
    /\ UNCHANGED <<sm, cz, drain, ctor, store, now, mgrVars, memVars, heapVars>>

\* gc: sm.Lock()
GC_Lock ==
    /\ gcl.pc = "lock"
    /\ sm.mu = ""
    /\ sm' = [sm EXCEPT !.mu = "gc"]
    /\ gcl' = [gcl EXCEPT !.pc = "sweep"]
    /\ UNCHANGED <<cz, drain, ctor, store, now, mgrVars, memVars, heapVars>>

\* a gc loop that goes on after a sweep that failed
gc_after_logOnly(err) == "select"

\* gc: where the loop goes after a sweep: panic(err) when err is not nil,
\* back to the select otherwise
gc_after(err) == IF err THEN "panicked" ELSE "select"

\* gc: err := sm.storage.GC(); sm.Unlock(); panic(err) when err is not nil.
\* What GC does on a storage that has been closed is the storage's business:
\* it may fail or not.
GC_Sweep(fail) ==
    /\ gcl.pc = "sweep"
    /\ fail => (nFail < MaxFail \/ sm.storageCloses > 0)
    /\ store' = IF fail THEN store ELSE gc(store, now, MinMaxAge)
    /\ nFail' = IF fail /\ sm.storageCloses = 0 THEN nFail + 1 ELSE nFail
    /\ sm' = [sm EXCEPT !.mu = ""]
    /\ gcl' = [gcl EXCEPT !.pc = gc_after(fail),
                          !.err = fail,
                          !.sweeps = @ + 1,
                          !.afterClose = IF sm.storageCloses > 0 THEN @ + 1 ELSE @]
    /\ UNCHANGED <<cz, drain, ctor, now, memVars, heapVars>>
    /\ UNCHANGED <<ses, activeSessions, nextID, published, h, g>>

LifeNext ==
    \/ \E kind \in Kinds, tn \in TableNames, d \in Durations, dbFail \in DbFailures :
          Construct(kind, tn, d, dbFail)
    \/ \E d \in Durations : SetGCDelay(d)
    \/ \E i \in Closer : Close_Lock(i)
    \/ \E i \in Closer, who \in {"gc", "drain"} : Close_Signal(i, who)
    \/ \E i \in Closer : Close_Timeout(i)
    \/ \E i \in Closer, fail \in BOOLEAN : Close_Storage(i, fail)
    \/ GC_Timer
    \/ GC_Lock
    \/ \E fail \in BOOLEAN : GC_Sweep(fail)

SpecLife == Init /\ [][LifeNext]_vars


(* ===================== maps as objects with addresses ================= *)
(* A Go map value is a reference.  Here the MemoryStore's work functions   *)
(* and Session.Set are taken at that level: heap[a] is the contents of the *)
(* map at address a, a record holds the address of its values map and a    *)
(* handle the address of its Values map (0 for the nil map).  The steps    *)
(* are those of a request from Begin to Commit, with the exclusion table,  *)
(* and the storage's sweep and Close.                                      *)

\* the keys Set is called with at this level
HeapKeys == {"k1"}

\* a copy that hands back the map it was given
copyRef_alias(hp, src) == [heap |-> hp, ref |-> src]

\* copyValues: make a new map, fill it from src, return it
copyRef(hp, src) ==
    [heap |-> Append(hp, copyValues(hp[src])), ref |-> Len(hp) + 1]

\* what the steps at this level leave alone
HeapFrame ==
    UNCHANGED <<store, now, lifeVars, ses, published, nFail, h, g,
                cl, commitQueue, deleteQueue, getQueue>>

\* Begin with cookie s ("" for none), up to the storage's Get: lockSID takes
\* the entry for s once the table has none (until then it waits); without a
\* cookie Begin goes to Clear with an empty sid.  A cookie carries an
\* identifier that has been drawn.  Handles are numbered in the order of
\* their Begin.
Heap_Begin(i, s) ==
    /\ s \in {""} \cup {makeID(n) : n \in 1..(nextID - 1)}
    /\ hdl[i].pc = "idle"
    /\ \A j \in Handle : j < i => hdl[j].pc # "idle"
    /\ IF s = ""
       THEN /\ hdl' = [hdl EXCEPT ![i].pc = "clrDel"]
            /\ UNCHANGED activeSessions
       ELSE /\ s \notin DOMAIN activeSessions
            /\ activeSessions' = (s :> i) @@ activeSessions
            /\ hdl' = [hdl EXCEPT ![i].pc = "get", ![i].sid = s]
    /\ UNCHANGED <<heap, recRef, nextID, closedChans, loop>>
    /\ HeapFrame

\* Begin: storage.Get(s.sid), served by the loop.  get returns a Session
\* whose Values is copyValues(stored.values) and Begin takes that map as the
\* handle's and writes the cookie; without a record Values stays nil and
\* Begin goes to Clear.
Heap_Get(i) ==
    /\ hdl[i].pc = "get"
    /\ loop = "serving"
    /\ IF hdl[i].sid \in DOMAIN recRef
       THEN /\ Len(heap) < MaxHeap
            /\ LET c == copyRef(heap, recRef[hdl[i].sid].values)
               IN /\ heap' = c.heap
                  /\ hdl' = [hdl EXCEPT ![i].pc = "handler",
                                        ![i].Values = c.ref,
                                        ![i].resumed = TRUE]
       ELSE /\ hdl' = [hdl EXCEPT ![i].pc = "clrDel"]
            /\ UNCHANGED heap
    /\ UNCHANGED <<recRef, activeSessions, nextID, closedChans, loop>>
    /\ HeapFrame

\* the handler calls Session.Clear
Heap_Clear(i) ==
    /\ hdl[i].pc = "handler"
    /\ hdl' = [hdl EXCEPT ![i].pc = "clrDel"]
    /\ UNCHANGED <<heap, recRef, activeSessions, nextID, closedChans, loop>>
    /\ HeapFrame

\* Clear: s.sm.storage.Delete(s), served by the loop: the record of the
\* handle's sid, if there is one, is removed
Heap_ClearDelete(i) ==
    /\ hdl[i].pc = "clrDel"
    /\ loop = "serving"
    /\ recRef' = delete(recRef, hdl[i].sid)
    /\ hdl' = [hdl EXCEPT ![i].pc = "clrUnlock"]
    /\ UNCHANGED <<heap, activeSessions, nextID, closedChans, loop>>
    /\ HeapFrame

\* Clear: unlockSID(old sid), a new sid from makeID, a new map from make,
\* setCookie, and NewActionToken, which sets a newly drawn token in the map
Heap_ClearUnlock(i) ==
    /\ hdl[i].pc = "clrUnlock"
    /\ nextID + 1 <= MaxID
    /\ Len(heap) < MaxHeap
    /\ unlockSID(hdl[i].sid)
    /\ heap' = Append(heap, NewActionToken(EmptyValues, nextID + 1))
    /\ hdl' = [hdl EXCEPT ![i] = [pc |-> "handler", sid |-> makeID(nextID),
                                  Values |-> Len(heap) + 1,
                                  resumed |-> FALSE, dirty |-> FALSE]]
    /\ nextID' = nextID + 2
    /\ UNCHANGED <<recRef, closedChans, loop>>
    /\ HeapFrame

\* Session.Set: s.Values[key] = value, an update of the map in place
Heap_Set(i, k, v) ==
    /\ hdl[i].pc = "handler"
    /\ heap' = [heap EXCEPT ![hdl[i].Values] = (k :> v) @@ @]
    /\ hdl' = [hdl EXCEPT ![i].dirty = TRUE]
    /\ UNCHANGED <<recRef, activeSessions, nextID, closedChans, loop>>
    /\ HeapFrame

\* Session.NewActionToken: Set("actionToken", makeID()), in place
Heap_NewActionToken(i) ==
    /\ hdl[i].pc = "handler"
    /\ nextID <= MaxID
    /\ heap' = [heap EXCEPT ![hdl[i].Values] = NewActionToken(@, nextID)]
    /\ nextID' = nextID + 1
    /\ UNCHANGED <<recRef, hdl, activeSessions, closedChans, loop>>
    /\ HeapFrame

\* Session.Commit: s.sm.storage.Commit(s), served by the loop:
\* MemoryStore.commit stores copyValues(ses.Values) with the time
Heap_Commit(i) ==
    /\ hdl[i].pc = "handler"
    /\ loop = "serving"
    /\ Len(heap) < MaxHeap
    /\ LET c == copyRef(heap, hdl[i].Values)
       IN /\ heap' = c.heap
          /\ recRef' = (hdl[i].sid :> [sid |-> hdl[i].sid, lastUsed |-> now,
                                       values |-> c.ref]) @@ recRef
    /\ hdl' = [hdl EXCEPT ![i].pc = "cmtUnlock", ![i].dirty = FALSE]
    /\ UNCHANGED <<activeSessions, nextID, closedChans, loop>>
    /\ HeapFrame

\* Session.Commit: s.sm.unlockSID(s.sid); the request ends
Heap_CommitUnlock(i) ==
    /\ hdl[i].pc = "cmtUnlock"
    /\ unlockSID(hdl[i].sid)
    /\ hdl' = [hdl EXCEPT ![i].pc = "done"]
    /\ UNCHANGED <<heap, recRef, nextID, closedChans, loop>>
    /\ HeapFrame

\* the manager's gc loop calls storage.GC: MemoryStore.gc drops the records
\* last used more than maxAge ago
Heap_GC ==
    /\ loop = "serving"
    /\ recRef' = gc(recRef, now, MinMaxAge)
    /\ UNCHANGED <<heap, hdl, activeSessions, nextID, closedChans, loop>>
    /\ HeapFrame

\* SessionManager.Close calls storage.Close: MemoryStore.close closes the
\* channels and sets store to nil, and serve returns
Heap_Close ==
    /\ loop = "serving"
    /\ closedChans' = close
    /\ loop' = "exited"
    /\ recRef' = [s \in {} |-> 0]
    /\ UNCHANGED <<heap, hdl, activeSessions, nextID>>
    /\ HeapFrame

\* a call of the storage after its Close: the send on a closed queue panics
Heap_Panic(i) ==
    /\ hdl[i].pc \in {"get", "clrDel", "handler"}
    /\ loop = "exited"
    /\ hdl' = [hdl EXCEPT ![i].pc = "panicked"]
    /\ UNCHANGED <<heap, recRef, activeSessions, nextID, closedChans, loop>>
    /\ HeapFrame

HeapNext ==
    \/ \E i \in Handle, s \in {""} \cup SIDs : Heap_Begin(i, s)
    \/ \E i \in Handle : Heap_Get(i)
    \/ \E i \in Handle : Heap_Clear(i)
    \/ \E i \in Handle : Heap_ClearDelete(i)
    \/ \E i \in Handle : Heap_ClearUnlock(i)
    \/ \E i \in Handle, k \in HeapKeys, v \in Vals : Heap_Set(i, k, v)
    \/ \E i \in Handle : Heap_NewActionToken(i)
    \/ \E i \in Handle : Heap_Commit(i)
    \/ \E i \in Handle : Heap_CommitUnlock(i)
    \/ Heap_GC
    \/ Heap_Close
    \/ \E i \in Handle : Heap_Panic(i)
    \/ \E d \in {1, MinMaxAge} : Tick(d)

SpecHeap == Init /\ [][HeapNext]_vars

(* ====================== properties of the manager ===================== *)

\* C1 -- per-SID mutual exclusion: at most one request at a time is between
\* the point where its Begin took a sid in lockSID and the point where it
\* releases that sid by its own Commit or Clear.
C1_MutualExclusion ==
    \A r1, r2 \in Req :
        (r1 # r2 /\ h[r1].holds # "") => h[r1].holds # h[r2].holds

\* the keys a request has written with Set and not dropped by a later Clear
KeysOf(r) == {p[1] : p \in h[r].wrote}

\* the record stored for sid s holds every pair of the set ps
Stored(s, ps) ==
    /\ s \in DOMAIN store
    /\ \A p \in ps : p[1] \in DOMAIN store[s].values /\ store[s].values[p[1]] = p[2]

\* request r resumed the record of the sid it presented, wrote to it with Set,
\* did not Clear, and its Commit returned without error
Updated(r) ==
    /\ ses[r].pc = "done" /\ ses[r].ret = "ok"
    /\ h[r].resumed /\ ~h[r].cleared /\ h[r].wrote # {}

\* C2 -- no lost update: when two requests presenting the same sid, whose
\* record exists when each Begin is called, both resume its record, Set distinct keys and Commit once, with no Clear and no
\* storage failure, and no third request presents that sid, the stored
\* record holds both requests' pairs after both commits.
C2_NoLostUpdate ==
    \A r1, r2 \in Req :
        ( /\ r1 # r2
          /\ Updated(r1) /\ Updated(r2)
          /\ h[r1].recAtIssue /\ h[r2].recAtIssue
          /\ ses[r1].tok = ses[r2].tok
          /\ KeysOf(r1) \cap KeysOf(r2) = {}
          /\ nFail = 0
          /\ \A r3 \in Req \ {r1, r2} : ses[r3].tok # ses[r1].tok )
        => Stored(ses[r1].tok, h[r1].wrote \cup h[r2].wrote)

\* Begin has just returned a handle to request r: no Set or Clear yet
BeginReturned(r) == ses[r].pc = "handler" /\ ses[r].nops = 0

\* C3 -- round trip: when Begin presents the cookie written for a handle q
\* and fetches the record q committed (no Commit or Delete of that sid in
\* between), Get returns, for every key q wrote with Set, the value q wrote.
C3_RoundTrip ==
    \A r, q \in Req :
        ( /\ BeginReturned(r) /\ h[r].resumed
          /\ h[r].fetchedOf = q
          /\ ses[r].tok = ses[q].cookie )
        => \A p \in h[q].wrote : Session_Get(ses[r].Values, p[1]) = p[2]

\* a later request resumed what an earlier one wrote under k1
C3_Witness ==
    \E r, q \in Req :
        /\ BeginReturned(r) /\ h[r].resumed /\ h[r].fetchedOf = q
        /\ ses[r].tok = ses[q].cookie
        /\ <<"k1", "a">> \in h[q].wrote
        /\ Session_Get(ses[r].Values, "k1") = "a"

\* C4 -- Clear property: after Clear the handle's sid differs from the sid
\* it held before, and a fetch of a sid that a Clear has left returns
\* ErrNotFound, in every interleaving with other requests (stated here for
\* the runs in which no storage call fails).
C4_ClearProperty ==
    nFail = 0 =>
        /\ \A r \in Req :
              (ses[r].pc = "handler" /\ h[r].cleared) => ses[r].sid # h[r].oldSid
        /\ \A s \in g.clearedSids : get(store, s).err = "ErrNotFound"

\* x is an identifier drawn by makeID since request r called Begin
NewlyGenerated(r, x) == \E n \in h[r].idAtCall..(nextID - 1) : x = makeID(n)

\* C5 (as stated) -- fresh session: a Begin with no token, an empty token or
\* a token without a record returns a handle with a new non-empty sid, an
\* empty value set, and a cookie carrying that sid.
C5_FreshEmpty ==
    \A r \in Req :
        (BeginReturned(r) /\ h[r].fresh)
        => /\ ses[r].sid # "" /\ NewlyGenerated(r, ses[r].sid)
           /\ ses[r].sid # ses[r].tok
           /\ ses[r].Values = EmptyValues
           /\ ses[r].cookie = ses[r].sid

\* C5 (amended) -- fresh session: such a Begin returns a handle with a new
\* non-empty sid, a value set that holds the reserved key "actionToken" with
\* a newly drawn token and nothing else, and a cookie carrying that sid.
C5_FreshSession ==
    \A r \in Req :
        (BeginReturned(r) /\ h[r].fresh)
        => /\ ses[r].sid # "" /\ NewlyGenerated(r, ses[r].sid)
           /\ ses[r].sid # ses[r].tok
           /\ DOMAIN ses[r].Values = {"actionToken"}
           /\ NewlyGenerated(r, ses[r].Values["actionToken"])
           /\ ses[r].Values["actionToken"] # ses[r].sid
           /\ ses[r].cookie = ses[r].sid

\* Begin returned fresh sessions both for a request without a token and for
\* one whose token had no record
C5_Witness ==
    \E r, q \in Req :
        /\ BeginReturned(r) /\ h[r].fresh /\ ses[r].tok # ""
        /\ h[q].fresh /\ ses[q].tok = ""

\* the second call's values hold every pair the first call committed
Sees(r2, r1) ==
    \A p \in h[r1].wrote :
        p[1] \in DOMAIN ses[r2].Values /\ ses[r2].Values[p[1]] = p[2]

\* r1 and r2 presented the same sid, r1 wrote pairs no other request wrote
\* and committed them to that sid, and r2's Begin has just returned
TwoCalls(r1, r2) ==
    /\ r1 # r2
    /\ BeginReturned(r2) /\ ses[r2].tok # ""
    /\ ses[r1].tok = ses[r2].tok /\ h[r1].cmtSid = ses[r2].tok
    /\ ses[r1].pc = "done" /\ ses[r1].ret = "ok"
    /\ h[r1].wrote # {}
    /\ \A r3 \in Req \ {r1} : h[r3].wrote \cap h[r1].wrote = {}

GetFollowsCommit(r2, r1) ==
    /\ r1 \in h[r2].cmtBeforeGet
    /\ h[r2].lastAtGet = r1
    /\ ~h[r2].expiredAtGet

SweptBeforeGet ==
    \E r1, r2 \in Req :
        /\ TwoCalls(r1, r2)
        /\ r1 \in h[r2].doneAtIssue /\ r1 \in h[r2].cmtBeforeGet
        /\ h[r2].lastAtGet = 0 /\ h[r2].fresh /\ ~Sees(r2, r1)
        /\ ~h[r2].expiredAtGet

\* a Begin called after the first call's Commit returned, whose Get found the
\* record older than maxAge and reported ErrNotFound, gets a fresh session
ExpiredBeforeGet ==
    \E r1, r2 \in Req :
        /\ TwoCalls(r1, r2)
        /\ r1 \in h[r2].doneAtIssue /\ h[r2].lastAtGet = r1
        /\ h[r2].expiredAtGet /\ h[r2].fresh /\ ~Sees(r2, r1)
        /\ sm.storage = {"bolt", "mysql"}

\* the same for a record exactly maxAge old, which only the MySQL select
\* leaves out
AtMaxAgeGet ==
    \E r1, r2 \in Req :
        /\ TwoCalls(r1, r2)
        /\ r1 \in h[r2].doneAtIssue /\ h[r2].lastAtGet = r1
        /\ h[r2].expiredAtGet /\ h[r2].fresh /\ ~Sees(r2, r1)
        /\ sm.storage = {"mysql"}

\* a record at least maxAge old that MemoryStore.get still returns
OldRecordResumed ==
    \E r1, r2 \in Req :
        /\ TwoCalls(r1, r2)
        /\ h[r2].lastAtGet = r1 /\ h[r2].expiredAtGet
        /\ h[r2].resumed /\ Sees(r2, r1)
        /\ sm.storage = {"memory"}

\* a sweep removed the record of a session while a handler was using it
SweptInUse ==
    \E r \in Req :
        /\ ses[r].pc = "handler" /\ h[r].resumed
        /\ ses[r].sid = ses[r].tok /\ ses[r].sid \notin DOMAIN store

\* C7 -- no sid stays locked forever: every entry of the exclusion table
\* belongs to a request that is still running and will release it.
C7_NoLockLeak ==
    \A s \in DOMAIN activeSessions :
        ses[activeSessions[s]].pc \notin {"done", "failed"}

\* C8 -- storage failures are never swallowed: when a storage call made for a
\* session operation returned an error other than ErrNotFound, the operation
\* returns that error to its caller.
C8_ErrorsPropagate ==
    \A r \in Req : (ses[r].ret # "none" /\ ses[r].berr) => ses[r].ret = "err"

\* key k was never given to Set by request r, nor by a request that has
\* committed the sid r's handle has
NeverSet(r, k) ==
    /\ k \notin KeysOf(r)
    /\ \A q \in g.committers[ses[r].sid] : k \notin KeysOf(q)

\* C18 -- miss property: on a handle that Begin has returned, Get of a key
\* that was never given to Set, in this request or in an earlier committed
\* request of the same session, returns "" (stated for the keys of the
\* application; "actionToken" is set by Clear itself).
C18_Miss ==
    \A r \in Req, k \in UserKeys :
        (ses[r].pc = "handler" /\ NeverSet(r, k))
        => Session_Get(ses[r].Values, k) = ""

\* a handle that resumed a record holding k1 answers "a" for k1 and "" for
\* k2, which was never set
C18_Witness ==
    \E r \in Req :
        /\ ses[r].pc = "handler" /\ h[r].resumed
        /\ NeverSet(r, "k2") /\ ~NeverSet(r, "k1")
        /\ Session_Get(ses[r].Values, "k1") = "a"
        /\ Session_Get(ses[r].Values, "k2") = ""

\* request r resumed a record and has not called Clear since
ResumedHandle(r) ==
    /\ h[r].resumed /\ ~h[r].cleared
    /\ ses[r].pc \in {"handler", "cmtUnlock", "done"}

\* C19 -- stable sid on resume: a handle that Begin returned for a sid whose
\* record the storage returned has that sid, the values that were stored,
\* and a cookie rewritten with that sid; as long as it does not Clear, it
\* keeps the sid and commits under it.
C19_StableSID ==
    \A r \in Req :
        ResumedHandle(r)
        => /\ ses[r].sid = ses[r].tok
           /\ ses[r].cookie = ses[r].tok
           /\ h[r].cmtSid \in {"", ses[r].tok}
           /\ (BeginReturned(r) /\ h[r].fetchedOf # 0)
              => ses[r].Values = ses[h[r].fetchedOf].Values

\* three requests in a row under one sid: the first created the session,
\* the second resumed and committed it, the third resumed what the second
\* committed and committed under the same sid
C19_Witness ==
    \E r, q \in Req :
        /\ r # q /\ ResumedHandle(r) /\ ResumedHandle(q)
        /\ ses[r].pc = "done" /\ ses[q].pc = "done"
        /\ h[r].fetchedOf = q /\ h[q].fetchedOf \notin {0, r, q}
        /\ h[r].cmtSid = ses[q].cookie /\ h[q].cmtSid = ses[r].cookie



\* C20 -- the lock covers every sid a handle operates on: a handle that is
\* at its storage Delete (in Clear) or has just made its storage Commit for
\* its sid, a sid minted by Clear or by Begin included, is the holder of the
\* exclusion-table entry of that sid.
C20_LockCoversSID ==
    \A r \in Req :
        (ses[r].pc \in {"clrDel", "cmtUnlock"} /\ ses[r].sid # "")
        => /\ h[r].holds = ses[r].sid
           /\ ses[r].sid \in DOMAIN activeSessions
           /\ activeSessions[ses[r].sid] = r

\* C21 -- release only by the holder: the entry a request's Begin stored for
\* a sid stays in the exclusion table, as that request's, until that request
\* releases it by its own Commit or Clear; no other handle's Commit or Clear
\* removes it.
C21_ReleaseOnlyByHolder ==
    \A r \in Req :
        h[r].holds # ""
        => /\ h[r].holds \in DOMAIN activeSessions
           /\ activeSessions[h[r].holds] = r

\* C25 -- Commit releases on every path: a Commit on a handle with a
\* non-empty sid makes one call of the storage's Commit (the record is
\* written, or on an error the map is left alone) and then removes the sid's
\* entry and returns the storage's result, error or not; a Commit on a
\* handle with an empty sid changes neither the storage nor the table and
\* returns success.
C25_CommitReleases ==
    [][\A r \in Req :
          /\ (ses[r].pc \in {"handler", "idle"} /\ ses'[r].pc = "cmtUnlock")
             => /\ ses[r].sid # ""
                /\ activeSessions' = activeSessions
                /\ IF ses'[r].berr
                   THEN store' = store
                   ELSE store' = commit(store, ses[r].sid, ses[r].Values, now)
          /\ (ses[r].pc = "cmtUnlock" /\ ses'[r] # ses[r])
             => /\ ses'[r].pc = "done"
                /\ ses[r].sid \notin DOMAIN activeSessions'
                /\ ses'[r].ret = (IF ses[r].berr THEN "err" ELSE "ok")
                /\ store' = store
          /\ (ses[r].pc \in {"handler", "idle"} /\ ses'[r].pc = "done")
             => /\ ses[r].sid = ""
                /\ ses'[r].ret = "ok"
                /\ store' = store
                /\ activeSessions' = activeSessions]_vars

\* one Commit returned the storage's error after it had released an entry
\* that was in the table, and a Commit on a handle with an empty sid
\* returned success
C25_Witness ==
    \E r, q \in Req :
        /\ ses[r].pc = "done" /\ ses[r].berr /\ ses[r].ret = "err"
        /\ h[r].resumed /\ ses[r].sid = ses[r].tok
        /\ ses[r].sid \notin DOMAIN activeSessions
        /\ ses[q].pc = "done" /\ ses[q].sid = "" /\ ses[q].ret = "ok"

\* the form values a request may carry as "actionToken"
FormValues == {"", "error"} \cup SIDs

\* C27 -- action token validity: CanAct is true only for the form value
\* that equals the handle's current, non-empty action token; after Clear or
\* NewActionToken the handle holds a token it did not hold before, and no
\* token it held before that call is accepted.
C27_ActionToken ==
    \A r \in Req :
        ses[r].pc = "handler"
        => /\ \A at \in FormValues :
                  CanAct(ses[r].Values, at)
                  => at # "" /\ at = Session_Get(ses[r].Values, "actionToken")
           /\ CanAct(ses[r].Values, ActionToken(ses[r].Values))
           /\ \A t \in h[r].oldTokens : ~CanAct(ses[r].Values, t)

\* a handle that resumed a session, with the token stored in it, called
\* NewActionToken and holds another token
C27_Witness ==
    \E r \in Req :
        /\ ses[r].pc = "handler" /\ h[r].resumed /\ ~h[r].cleared
        /\ h[r].oldTokens # {}
        /\ CanAct(ses[r].Values, ActionToken(ses[r].Values))

(* ==================== properties of the MemoryStore =================== *)

\* C9 -- every request placed on a queue is answered: the control loop exits
\* only after draining, so once it has exited no caller is left waiting for
\* the answer to a request it had placed on a queue.
C9_AnsweredBeforeExit ==
    loop = "exited" => \A c \in Caller : cl[c].pc # "recv"

\* C10 -- fail fast after shutdown: a call made after Close has returned
\* never waits for an answer; it stands at a send on a closed channel, which
\* fails at once, or has failed there.
C10_FailFast ==
    \A c \in Caller :
        cl[c].afterClose
        => \/ cl[c].pc = "panicked"
           \/ cl[c].pc = "sending" /\ ChanOf(cl[c].op) \in closedChans

\* a Get and a Close made after Close had returned have both failed
C10_Witness ==
    \E c, d \in Caller :
        /\ cl[c].afterClose /\ cl[c].op = "Get" /\ cl[c].pc = "panicked"
        /\ cl[d].afterClose /\ cl[d].op = "Close" /\ cl[d].pc = "panicked"

(* ============== properties of the SessionManager lifecycle ============ *)

\* C11 -- shutdown timeout path: a Close whose stop signal was not taken
\* within the bound has closed the backend, exactly once, when it returns,
\* and it returns the gc-timeout error, whatever the backend's Close returned.
C11_TimeoutReported ==
    \A i \in Closer :
        (cz[i].pc = "returned" /\ cz[i].timedOut)
        => /\ sm.storageCloses = 1
           /\ cz[i].ret = "gc failed to shut down"

\* a goroutine can still send on sm.closeChan or close it: a Close call is
\* at its select or before it with the manager not yet closed
StopStillComing ==
    \/ sm.closeChan = "closed"
    \/ \E i \in Closer : cz[i].pc = "select"
    \/ ~sm.closed

\* C12 -- gc loop termination: once Close has been called and has returned,
\* the gc loop has taken the stop signal and returned, or the signal is still
\* to come; and the goroutine that waits for a late acknowledgment is not
\* left at its receive with no signal to come.  (sm.closed never goes back to
\* false and a Close that finds it true returns at once, so when the signal
\* is not still to come it never comes.)
C12_StopSignalConsumed ==
    (\E i \in Closer : cz[i].pc = "returned" /\ cz[i].ret # "already closed")
    => \/ StopStillComing
       \/ gcl.pc \in {"returned", "panicked"} /\ drain # "recv"

\* C15 -- construction guard: a backend constructor called with a maximum
\* age below 5 minutes returns an error and no store and has set up nothing;
\* a SetGCDelay with a delay below 5 minutes returns an error and leaves
\* gcDelay as it was.
C15_ConstructionGuard ==
    /\ (ctor.kind # "" /\ ctor.maxAge < MinMaxAge)
       => (ctor.err # "nil" /\ ~ctor.created /\ ctor.effects = {})
    /\ (sm.lastSet.err # "" /\ sm.lastSet.delay < MinMaxAge)
       => (sm.lastSet.err = "maxAge duration too short"
           /\ sm.gcDelay = sm.lastSet.before)

\* C22 -- manager lock scope: the manager's mutex is not held while a call
\* to the storage is in progress: not while the gc loop is in storage.GC,
\* not while Close is before or in storage.Close.
C22_LockScope ==
    (gcl.pc = "sweep" \/ \E i \in Closer : cz[i].pc = "storageClose")
    => sm.mu = ""

\* C23 -- no sweep after shutdown: once Close has closed the storage the gc
\* loop makes no call of storage.GC.
C23_NoSweepAfterClose == gcl.afterClose = 0

\* C26 -- sweep error is fatal to the gc loop: the step that ends a sweep
\* releases the manager's mutex and counts one sweep; when the sweep
\* returned an error the loop panics, and from then on it makes no step, so
\* no other sweep; when it returned none the loop is back at its select,
\* where the timer can fire again.  The loop is stopped by a panic only
\* when a sweep returned an error.
C26_SweepErrorFatal ==
    /\ [](gcl.pc = "panicked" <=> gcl.err)
    /\ [](gcl.err => sm.mu # "gc")
    /\ []((gcl.pc = "select" /\ gcl.sweeps < MaxSweeps) => ENABLED GC_Timer)
    /\ [][(gcl.pc = "sweep" /\ gcl' # gcl)
           => /\ sm'.mu = ""
              /\ gcl'.sweeps = gcl.sweeps + 1
              /\ gcl'.pc = (IF gcl'.err THEN "panicked" ELSE "select")]_vars
    /\ [][gcl.err => gcl' = gcl]_vars

\* the loop made a sweep without an error, came back for another, and that
\* one returned an error: the loop has panicked with the mutex free
C26_Witness ==
    /\ gcl.pc = "panicked" /\ gcl.err
    /\ gcl.sweeps = 2
    /\ sm.mu = ""
    /\ sm.storageCloses = 0

(* ================ properties of the MemoryStore, continued ============ *)

\* caller c's request is answered in this step
Answered(c) == cl[c].pc # "returned" /\ cl'[c].pc = "returned"

\* C13 -- sweep property: the step in which a sweep is made removes every
\* record whose age since its last commit is greater than maxAge and keeps
\* every other record as it was; it adds none.
C13_Sweep ==
    [][\A c \in Caller :
          (cl[c].op = "GC" /\ Answered(c))
          => /\ DOMAIN store' \subseteq DOMAIN store
             /\ \A s \in DOMAIN store :
                   IF now - store[s].lastUsed > MinMaxAge
                   THEN s \notin DOMAIN store'
                   ELSE s \in DOMAIN store' /\ store'[s] = store[s]]_vars

\* a sweep removed one record and kept another that was exactly maxAge old
C13_Witness ==
    \E c \in Caller :
        /\ cl[c].op = "GC" /\ cl[c].pc = "returned"
        /\ cl[c].obs.removed # {} /\ cl[c].obs.kept # {}

\* C14 -- idempotent delete: a Delete for a sid that has no record is
\* answered without error and leaves the map as it was, also when it is the
\* second Delete of that sid in a row.
C14_IdempotentDelete ==
    [][\A c \in Caller :
          (cl[c].op = "Delete" /\ Answered(c) /\ cl[c].sid \notin DOMAIN store)
          => cl'[c].resp.err = "nil" /\ store' = store]_vars

\* two Deletes of the same sid, neither of which found a record, were both
\* answered without error while another sid had a record
C14_Witness ==
    \E c, d \in Caller :
        /\ c # d /\ cl[c].op = "Delete" /\ cl[d].op = "Delete"
        /\ cl[c].sid = cl[d].sid
        /\ cl[c].pc = "returned" /\ cl[d].pc = "returned"
        /\ ~cl[c].obs.had /\ ~cl[d].obs.had
        /\ cl[c].resp.err = "nil" /\ cl[d].resp.err = "nil"
        /\ DOMAIN store # {}

\* the caller whose request the loop ran n-th
AppliedAt(n) == CHOOSE d \in Caller : cl[d].applied = n

\* the mapping sid -> Values after the first n requests, applied one after
\* another to an empty map: a Commit binds its sid to its Values, a Delete
\* unbinds its sid, a sweep unbinds what it removed, a Close unbinds all
RECURSIVE AbsAfter(_)
AbsAfter(n) ==
    IF n = 0 THEN [s \in {} |-> EmptyValues]
    ELSE LET m == AbsAfter(n - 1)
             d == cl[AppliedAt(n)]
         IN CASE d.op = "Commit" ->
                   (d.sid :> [k \in DOMAIN d.Values \ {"<nil>"} |-> d.Values[k]]) @@ m
              [] d.op = "Delete" -> [s \in DOMAIN m \ {d.sid} |-> m[s]]
              [] d.op = "GC" -> [s \in DOMAIN m \ d.obs.removed |-> m[s]]
              [] d.op = "Close" -> [s \in {} |-> EmptyValues]
              [] OTHER -> m

\* C24 -- actor store linearizability: the loop runs one request at a time,
\* so the answered requests stand in one total order; every answer equals
\* the answer of applying the requests atomically in that order (a Get of a
\* sid returns the Values of the latest Commit of that sid not undone by a
\* later Delete, sweep or Close, and NotFound otherwise; the other calls
\* return no error); the order respects real time: a request that had
\* returned before another was issued stands before it; and the map changes
\* only in the step in which the loop answers a request.
AnswersInOneOrder ==
    /\ \A c, d \in Caller :
           (c # d /\ cl[c].applied > 0) => cl[c].applied # cl[d].applied
    /\ \A c \in Caller :
           (cl[c].pc = "returned") <=> (cl[c].applied > 0)
    /\ \A c \in Caller :
           cl[c].applied > 0
           => /\ \A d \in cl[c].returnedBefore :
                     cl[d].applied > 0 /\ cl[d].applied < cl[c].applied
              /\ IF cl[c].op = "Get"
                 THEN LET m == AbsAfter(cl[c].applied - 1)
                      IN IF cl[c].sid \in DOMAIN m
                         THEN cl[c].resp = [Values |-> m[cl[c].sid], err |-> "nil"]
                         ELSE cl[c].resp.err = "ErrNotFound"
                 ELSE cl[c].resp.err = "nil"

C24_Linearizable ==
    /\ []AnswersInOneOrder
    /\ [][store' # store => \E c \in Caller : Answered(c)]_vars

\* a Get issued after a Commit and a Delete of its sid had returned, in
\* that order, and another issued after a Commit had returned
C24_Witness ==
    \E c, d, e \in Caller :
        /\ cl[c].op = "Commit" /\ cl[d].op = "Delete" /\ cl[e].op = "Get"
        /\ cl[c].sid = cl[e].sid /\ cl[d].sid = cl[e].sid
        /\ cl[c].Values # NilValues /\ cl[c].Values # EmptyValues
        /\ c \in cl[d].returnedBefore
        /\ d \in cl[e].returnedBefore
        /\ cl[e].pc = "returned"

\* C28 -- expired records are never fetched: a Get of a sid whose record was
\* last committed more than maxAge ago is answered NotFound, whether or not
\* a sweep has run since the record expired (as BoltStore.Get and the
\* MySQL store's select answer it).
C28_ExpiredNotFetched ==
    \A c \in Caller :
        (cl[c].op = "Get" /\ cl[c].pc = "returned" /\ cl[c].obs.expired)
        => cl[c].resp.err = "ErrNotFound"

\* C17 -- empty-sid commit is a no-op: a Commit of a session whose sid is
\* empty leaves the set of records as it was, so the backend never holds a
\* record under the empty identifier.
C17_NoEmptyRecord == "" \notin DOMAIN store

(* ================= properties of maps as objects ====================== *)

\* the contents of the record stored for sid s
RecordOf(s) == heap[recRef[s].values]

\* no map is shared: a handle's map is no record's map and no other handle's
NoSharedMap ==
    \A i \in Handle :
        hdl[i].Values # 0
        => /\ \A s \in DOMAIN recRef : recRef[s].values # hdl[i].Values
           /\ \A j \in Handle \ {i} : hdl[j].Values # hdl[i].Values

\* C16 -- fetch isolation: the map of a handle that resumes a record is a
\* map of its own with the record's contents, the record written by a Commit
\* has a map of its own with the contents of the handle's map, and a Set on
\* a handle, like every step that does not commit the record's sid again,
\* leaves the contents of every record as they were.
C16_FetchIsolation ==
    /\ []NoSharedMap
    /\ [][/\ \A i \in Handle :
              (hdl[i].pc = "get" /\ hdl'[i].pc = "handler")
              => /\ hdl'[i].sid = hdl[i].sid
                 /\ heap'[hdl'[i].Values] = RecordOf(hdl[i].sid)
          /\ \A i \in Handle :
              (hdl[i].pc = "handler" /\ hdl'[i].pc = "cmtUnlock")
              => heap'[recRef'[hdl[i].sid].values] = heap[hdl[i].Values]
          /\ \A st \in DOMAIN recRef \cap DOMAIN recRef' :
              recRef'[st] = recRef[st] => heap'[recRef'[st].values] = RecordOf(st)
          /\ \A i \in Handle, k \in HeapKeys, v \in Vals :
              Heap_Set(i, k, v) => recRef' = recRef]_vars

\* a handle that resumed a record has been changed by Set since, and the
\* record still has what the handle that committed it had, a value it set
\* included
C16_Witness ==
    \E i, j \in Handle :
        /\ i # j /\ hdl[i].sid = hdl[j].sid /\ hdl[i].sid \in DOMAIN recRef
        /\ hdl[i].pc = "handler" /\ hdl[i].resumed /\ hdl[i].dirty
        /\ heap[hdl[i].Values] # RecordOf(hdl[i].sid)
        /\ hdl[j].pc = "done"
        /\ heap[hdl[j].Values] = RecordOf(hdl[j].sid)
        /\ "k1" \in DOMAIN RecordOf(hdl[j].sid)

====
